---- MODULE Spec2Model ----
(***************************************************************************)
(* A model of the DEPNG PNG decoder (parser: decodeChunks, decodeIHDR,     *)
(* decodePLTE, decodeIDAT, png; helpers: parseIntFromBuffer,               *)
(* paethPredictor, fetchImage; hooks: useFetchImage).                      *)
(*                                                                         *)
(* Byte buffers (Uint8Array) are sequences of integers 0..255; the source  *)
(* is 0-based, sequences are 1-based, so data[k] of the source is          *)
(* data[k + 1] here.  A chunk type (a string of four characters) is the    *)
(* sequence of its four character codes.                                   *)
(***************************************************************************)
EXTENDS Integers, Sequences, FiniteSets

VARIABLES
    entry,          \* the function that was called: its return ends the run
    pc,             \* the position of the running call
    input,          \* the argument of png / decodeChunks (never written)
    data,           \* decodeChunks: the local `data`, the bytes not yet consumed
    chunks,         \* decodeChunks: `chunks`; png: `chunks`
    previousType,   \* decodeChunks: `previousType` (<< >> while undefined)
    IHDR,           \* png: the result of decodeIHDR
    inflated,       \* png: the result of inflate(...), the data of the merged IDAT chunk
    lines,          \* decodeIDAT: `lines`, each << type, line >>
    ri, rj,         \* decodeIDAT: the indices i, j of the two forEach loops
    PLTE,           \* png: the result of decodePLTE, or Null
    pixels,         \* png: `pixels`
    orig,           \* the scanlines the filtered input was made from
    pargs, presult, \* paethPredictor: its arguments << a, b, c >> and its result
    url,            \* useFetchImage: the `url` of the last render
    isCancel,       \* useFetchImage: state isCancel
    buf,            \* useFetchImage: state buf
    err,            \* useFetchImage: state err
    phase,          \* the component: "initial", "mounted" or "unmounted"
    fetches,        \* the fetchImage promises not yet settled
    issued          \* the number of fetchImage calls so far

parserVars == << input, data, chunks, previousType, IHDR, inflated, lines, ri, rj,
                 PLTE, pixels, orig >>
paethVars == << pargs, presult >>
hookVars == << url, isCancel, buf, err, phase, fetches, issued >>
vars == << entry, pc, parserVars, paethVars, hookVars >>

(***************************************************************************)
(* Bounds of the inputs.                                                   *)
(***************************************************************************)
\* decodeChunks: at most MaxChunks chunks of at most MaxChunkLen data bytes, the
\* stream cut short by at most MaxCut bytes
MaxChunkLen == 1
MaxChunks == 2
MaxCut == 12
\* paethPredictor: bytes at most PaethSpan from either end of 0..255
PaethSpan == 7
\* images of at most MaxWidth x MaxHeight pixels, palettes of at most MaxPalette entries
MaxWidth == 2
MaxHeight == 2
MaxPalette == 2
\* useFetchImage: at most MaxFetches calls of fetchImage
MaxFetches == 3

(***************************************************************************)
(* Values of the language.                                                 *)
(***************************************************************************)
\* `undefined`, as an indexed read past the end of an array gives it
Undefined == -2
\* NaN, as arithmetic on `undefined` gives it
NaN == -3
\* the "-1 indicate byte does not exists" of decodeIDAT
Absent == -1
\* `null`
Null == [null |-> TRUE]

Max(x, y) == IF x >= y THEN x ELSE y
Min(x, y) == IF x <= y THEN x ELSE y
Abs(x) == IF x < 0 THEN 0 - x ELSE x

\* Uint8Array.prototype.slice(start, end) for 0 <= start, clamped to the length
Slice(d, start, end) == SubSeq(d, start + 1, Min(end, Len(d)))
\* d[k] of the source: the byte, or undefined past the end
Index(d, k) == IF k >= 0 /\ k < Len(d) THEN d[k + 1] ELSE Undefined

\* the chunk type tags of CHUN_TYPE, as character codes
T_IHDR == << 73, 72, 68, 82 >>
T_PLTE == << 80, 76, 84, 69 >>
T_tRNS == << 116, 82, 78, 83 >>
T_IDAT == << 73, 68, 65, 84 >>
T_IEND == << 73, 69, 78, 68 >>

\* COLOR_TYPE
GRAY_SCALE == 0
TRUE_COLOR == 2
INDEXED == 3
GRAY_SCALE_ALPHA == 4
TRUE_COLOR_ALPHA == 6

\* FILTER_TYPE
NONE == 0
SUB == 1
UP == 2
AVERAGE == 3
PEATH == 4

(***************************************************************************)
(* helpers                                                                 *)
(***************************************************************************)
\* consume(data, length): fails when data is shorter than length
ConsumeNeverFails(d, length) == FALSE
ConsumeFails(d, length) == Len(d) < length
Consume(d, length) == Slice(d, length, Len(d))

\* peek(data, start, end): fails when start > end or end > data.length
PeekFails(d, start, end) == start > end \/ end > Len(d)
Peek(d, start, end) == Slice(d, start, end)

\* parseIntFromBuffer(buf, bits): DataView.getUint8/16/32(0), big-endian
ParseIntFromBuffer(b, bits) ==
    IF bits = 8 THEN b[1]
    ELSE IF bits = 16 THEN b[1] * 256 + b[2]
    ELSE ((b[1] * 256 + b[2]) * 256 + b[3]) * 256 + b[4]
\* DataView.getUintN(0) throws a RangeError on a buffer shorter than N bits
ParseIntFails(b, bits) == Len(b) * 8 < bits

PaethPredictorTieC(a, b, c) ==
    LET p == a + b - c
        pa == Abs(p - a)
        pb == Abs(p - b)
        pc_ == Abs(p - c)
    IN  IF pa <= pb /\ pa <= pc_ THEN a
        ELSE IF pb < pc_ THEN b
        ELSE c
PaethPredictor(a, b, c) ==
    LET p == a + b - c
        pa == Abs(p - a)
        pb == Abs(p - b)
        pc_ == Abs(p - c)
    IN  IF pa <= pb /\ pa <= pc_ THEN a
        ELSE IF pb <= pc_ THEN b
        ELSE c

\* where a call returns to: the caller png, or the end of the run
Return(next) == IF entry = "png" THEN next ELSE "returned"

(***************************************************************************)
(* decodeChunks                                                            *)
(***************************************************************************)
\* line 98: data = consume(data, 8)
ConsumeHeader ==
    /\ pc = "decodeChunks"
    /\ IF ConsumeFails(input, 8)
       THEN /\ pc' = "error"
            /\ UNCHANGED << data, chunks, previousType >>
       ELSE /\ pc' = "chunkLoop"
            /\ data' = Consume(input, 8)
            /\ chunks' = << >>
            /\ previousType' = << >>
    /\ UNCHANGED << entry, input, IHDR, inflated, lines, ri, rj, PLTE, pixels, orig,
                    paethVars, hookVars >>

\* lines 103-115: one iteration of the while loop
ChunkLoop ==
    /\ pc = "chunkLoop"
    /\ previousType # T_IEND
    /\ IF PeekFails(data, 0, 4) \/ PeekFails(data, 4, 8)
       THEN /\ pc' = "error"
            /\ UNCHANGED << data, chunks, previousType >>
       ELSE LET length == ParseIntFromBuffer(Peek(data, 0, 4), 32)
                type == Peek(data, 4, 8)
            IN  IF PeekFails(data, 8, 8 + length)
                THEN /\ pc' = "error"
                     /\ UNCHANGED << data, chunks, previousType >>
                ELSE /\ chunks' = Append(chunks,
                                     [length |-> length, type |-> type,
                                      data |-> Peek(data, 8, 8 + length)])
                     /\ IF ConsumeFails(data, 12 + length)
                        THEN /\ pc' = "error"
                             /\ UNCHANGED << data, previousType >>
                        ELSE /\ pc' = "chunkLoop"
                             /\ data' = Consume(data, 12 + length)
                             /\ previousType' = type
    /\ UNCHANGED << entry, input, IHDR, inflated, lines, ri, rj, PLTE, pixels, orig,
                    paethVars, hookVars >>

\* lines 103, 116: the loop ends after the IEND chunk, return chunks
ChunksReturn ==
    /\ pc = "chunkLoop"
    /\ previousType = T_IEND
    /\ pc' = Return("decodeIHDR")
    /\ UNCHANGED << entry, parserVars, paethVars, hookVars >>

(***************************************************************************)
(* decodeIHDR                                                              *)
(***************************************************************************)
\* lines 146-159: the switch on colorType; no case matches: undefined
Channels(colorType) ==
    CASE colorType = GRAY_SCALE -> 1
      [] colorType = GRAY_SCALE_ALPHA -> 2
      [] colorType = INDEXED -> 1
      [] colorType = TRUE_COLOR -> 3
      [] colorType = TRUE_COLOR_ALPHA -> 4
      [] OTHER -> Undefined

\* line 160: Math.max(1, (depth * channels) / 8); NaN when channels is undefined.
\* The quotient is exact, or below 1, for every depth and channel count the
\* inputs below hold.
Bpp(depth, channels) ==
    IF channels = Undefined THEN NaN ELSE Max(1, (depth * channels) \div 8)
\* line 161: bpp * width
Bpl(bpp, width) == IF bpp = NaN THEN NaN ELSE bpp * width

\* lines 134-143: a peek past the 13 data bytes throws
DecodeIHDRFails(chunk) ==
    \/ PeekFails(chunk.data, 0, 4) \/ PeekFails(chunk.data, 4, 8)
    \/ PeekFails(chunk.data, 8, 9) \/ PeekFails(chunk.data, 9, 10)
    \/ PeekFails(chunk.data, 10, 11) \/ PeekFails(chunk.data, 11, 12)
    \/ PeekFails(chunk.data, 12, 13)
DecodeIHDRResult(chunk) ==
    LET width == ParseIntFromBuffer(Peek(chunk.data, 0, 4), 32)
        height == ParseIntFromBuffer(Peek(chunk.data, 4, 8), 32)
        depth == ParseIntFromBuffer(Peek(chunk.data, 8, 9), 8)
        colorType == ParseIntFromBuffer(Peek(chunk.data, 9, 10), 8)
        compression == ParseIntFromBuffer(Peek(chunk.data, 10, 11), 8)
        filter == ParseIntFromBuffer(Peek(chunk.data, 11, 12), 8)
        interlace == ParseIntFromBuffer(Peek(chunk.data, 12, 13), 8)
        channels == Channels(colorType)
        bpp == Bpp(depth, channels)
    IN  [type |-> chunk.type, width |-> width, height |-> height, depth |-> depth,
         colorType |-> colorType, compression |-> compression, filter |-> filter,
         interlace |-> interlace, channels |-> channels, bpp |-> bpp,
         bpl |-> Bpl(bpp, width)]

\* png line 291, 297: decodeIHDR(chunks[0])
DecodeIHDR ==
    /\ pc = "decodeIHDR"
    /\ IF DecodeIHDRFails(chunks[1])
       THEN pc' = "error" /\ UNCHANGED IHDR
       ELSE IHDR' = DecodeIHDRResult(chunks[1]) /\ pc' = Return("inflate")
    /\ UNCHANGED << entry, input, data, chunks, previousType, inflated, lines, ri, rj,
                    PLTE, pixels, orig, paethVars, hookVars >>

(***************************************************************************)
(* inflate (pako), on zlib streams of stored blocks                        *)
(***************************************************************************)
\* a stored block at offset off: one header byte (BFINAL in bit 0, BTYPE 0 in bits
\* 1-2), LEN and NLEN (two bytes each, little-endian), then LEN bytes
RECURSIVE StoredBlocks(_, _)
StoredBlocks(z, off) ==
    LET final == z[off + 1] % 2
        len == z[off + 2] + 256 * z[off + 3]
        body == SubSeq(z, off + 6, off + 5 + len)
    IN  IF final = 1 THEN body ELSE body \o StoredBlocks(z, off + 5 + len)
RECURSIVE StoredEnd(_, _)
StoredEnd(z, off) ==
    IF off + 5 > Len(z) THEN -1
    ELSE LET final == z[off + 1] % 2
             btype == (z[off + 1] \div 2) % 4
             len == z[off + 2] + 256 * z[off + 3]
             nlen == z[off + 4] + 256 * z[off + 5]
         IN  IF btype # 0 \/ len + nlen # 65535 \/ off + 5 + len > Len(z) THEN -1
             ELSE IF final = 1 THEN off + 5 + len
             ELSE StoredEnd(z, off + 5 + len)
RECURSIVE AdlerA(_)
AdlerA(d) == IF d = << >> THEN 1 ELSE (AdlerA(SubSeq(d, 1, Len(d) - 1)) + d[Len(d)]) % 65521
RECURSIVE AdlerB(_)
AdlerB(d) == IF d = << >> THEN 0
             ELSE (AdlerB(SubSeq(d, 1, Len(d) - 1)) + AdlerA(d)) % 65521
Adler32Bytes(d) == << AdlerB(d) \div 256, AdlerB(d) % 256, AdlerA(d) \div 256, AdlerA(d) % 256 >>
\* the streams this model of inflate covers: a zlib header (deflate, check bits
\* right, no dictionary), stored blocks, the Adler-32 of the output
ZlibStored(z) ==
    /\ Len(z) >= 2
    /\ z[1] % 16 = 8 /\ (z[1] * 256 + z[2]) % 31 = 0 /\ (z[2] \div 32) % 2 = 0
    /\ StoredEnd(z, 2) # -1
    /\ SubSeq(z, StoredEnd(z, 2) + 1, Len(z)) = Adler32Bytes(StoredBlocks(z, 2))
Inflate(z) == StoredBlocks(z, 2)

\* png lines 292-294
FindType(cs, t) == SelectSeq(cs, LAMBDA c : c.type = t)
\* png lines 303-309: the data of the IDAT chunks, merged in stream order
RECURSIVE Merge(_)
Merge(cs) == IF cs = << >> THEN << >> ELSE Head(cs).data \o Merge(Tail(cs))

\* png lines 298-311: the argument of decodeIDAT
InflateIDAT ==
    /\ pc = "inflate"
    /\ ZlibStored(Merge(FindType(chunks, T_IDAT)))
    /\ inflated' = Inflate(Merge(FindType(chunks, T_IDAT)))
    /\ pc' = "decodeIDAT"
    /\ UNCHANGED << entry, input, data, chunks, previousType, IHDR, lines, ri, rj,
                    PLTE, pixels, orig, paethVars, hookVars >>

(***************************************************************************)
(* decodeIDAT                                                              *)
(***************************************************************************)
\* lines 234-239: line i (0-based) of the data
Scanline(d, bpl, i) ==
    IF bpl = NaN THEN << Undefined, << >> >>
    ELSE LET start == i * (bpl + 1) + 1
             end == start + bpl
         IN  << Index(d, start - 1), Slice(d, start, end) >>

BreakIntoScanlines ==
    /\ pc = "decodeIDAT"
    /\ lines' = [k \in 1..IHDR.height |-> Scanline(inflated, IHDR.bpl, k - 1)]
    /\ ri' = 0 /\ rj' = 0
    /\ pc' = "reconstruct"
    /\ UNCHANGED << entry, input, data, chunks, previousType, IHDR, inflated,
                    PLTE, pixels, orig, paethVars, hookVars >>

\* lines 245-247: the neighbours of byte j of line i, -1 when there is none
\* (a comparison with NaN is false)
NeighbourAPreviousByte(ls, bpp, i, j) ==
    IF bpp # NaN /\ j >= bpp THEN ls[i + 1][2][j] ELSE Absent
NeighbourA(ls, bpp, i, j) ==
    IF bpp # NaN /\ j >= bpp THEN ls[i + 1][2][j - bpp + 1] ELSE Absent
NeighbourB(ls, bpp, i, j) == IF i > 0 THEN Index(ls[i][2], j) ELSE Absent
NeighbourC(ls, bpp, i, j) ==
    IF i > 0 /\ bpp # NaN /\ j >= bpp THEN Index(ls[i][2], j - bpp) ELSE Absent

\* lines 249-280: the new value of a byte x of a line of the given type
ReconAverageOfHalves(type, x, a, b, c) ==
    CASE type = SUB -> IF a # Absent THEN (x + a) % 256 ELSE x
      [] type = UP -> IF b # Absent THEN (x + b) % 256 ELSE x
      [] type = AVERAGE ->
            IF b = Absent /\ a # Absent THEN (x + (a \div 2)) % 256
            ELSE IF b # Absent /\ a = Absent THEN (x + (b \div 2)) % 256
            ELSE IF b # Absent /\ a # Absent THEN (x + ((a \div 2) + (b \div 2))) % 256
            ELSE x
      [] type = PEATH ->
            IF b = Absent /\ a # Absent THEN (x + a) % 256
            ELSE IF b # Absent /\ a = Absent THEN (x + b) % 256
            ELSE IF b # Absent /\ a # Absent THEN (x + PaethPredictor(a, b, c)) % 256
            ELSE x
      [] OTHER -> x
Recon(type, x, a, b, c) ==
    CASE type = NONE -> x
      [] type = SUB -> IF a # Absent THEN (x + a) % 256 ELSE x
      [] type = UP -> IF b # Absent THEN (x + b) % 256 ELSE x
      [] type = AVERAGE ->
            IF b = Absent /\ a # Absent THEN (x + (a \div 2)) % 256
            ELSE IF b # Absent /\ a = Absent THEN (x + (b \div 2)) % 256
            ELSE IF b # Absent /\ a # Absent THEN (x + ((a + b) \div 2)) % 256
            ELSE x
      [] type = PEATH ->
            IF b = Absent /\ a # Absent THEN (x + a) % 256
            ELSE IF b # Absent /\ a = Absent THEN (x + b) % 256
            ELSE IF b # Absent /\ a # Absent THEN (x + PaethPredictor(a, b, c)) % 256
            ELSE x
      [] OTHER -> x

\* lines 243-281: the callback of line.forEach on byte rj of line ri
ReconByte ==
    /\ pc = "reconstruct"
    /\ ri < Len(lines)
    /\ rj < Len(lines[ri + 1][2])
    /\ LET type == lines[ri + 1][1]
           x == lines[ri + 1][2][rj + 1]
           a == NeighbourA(lines, IHDR.bpp, ri, rj)
           b == NeighbourB(lines, IHDR.bpp, ri, rj)
           c == NeighbourC(lines, IHDR.bpp, ri, rj)
       IN  lines' = [lines EXCEPT ![ri + 1][2][rj + 1] = Recon(type, x, a, b, c)]
    /\ rj' = rj + 1
    /\ UNCHANGED << entry, pc, input, data, chunks, previousType, IHDR, inflated, ri,
                    PLTE, pixels, orig, paethVars, hookVars >>

\* line 242: lines.forEach goes to the next line
ReconNextLine ==
    /\ pc = "reconstruct"
    /\ ri < Len(lines)
    /\ rj >= Len(lines[ri + 1][2])
    /\ ri' = ri + 1 /\ rj' = 0
    /\ UNCHANGED << entry, pc, input, data, chunks, previousType, IHDR, inflated, lines,
                    PLTE, pixels, orig, paethVars, hookVars >>

\* lines 283-286: return { type, lines }
ReconReturn ==
    /\ pc = "reconstruct"
    /\ ri >= Len(lines)
    /\ pc' = Return("decodePLTE")
    /\ UNCHANGED << entry, parserVars, paethVars, hookVars >>

(***************************************************************************)
(* decodePLTE                                                              *)
(***************************************************************************)
\* lines 195-202: one entry for every i with i < palette.data.length / 3
EntryCount(d) == (Len(d) + 2) \div 3
Entries(d) ==
    [k \in 1..EntryCount(d) |->
        [red |-> Index(d, k - 1), green |-> Index(d, k), blue |-> Index(d, k + 1),
         alpha |-> 1]]

\* png line 314: PLTEChunk ? decodePLTE(PLTEChunk, tRNSChunk, IHDR) : null
DecodePLTE ==
    /\ pc = "decodePLTE"
    /\ LET found == FindType(chunks, T_PLTE)
       IN  PLTE' = IF found # << >>
                   THEN [type |-> found[1].type, entries |-> Entries(found[1].data)]
                   ELSE Null
    /\ pc' = Return("pixels")
    /\ UNCHANGED << entry, input, data, chunks, previousType, IHDR, inflated, lines,
                    ri, rj, pixels, orig, paethVars, hookVars >>

(***************************************************************************)
(* png: construction of the pixels                                         *)
(***************************************************************************)
UndefinedColor == [undefined |-> TRUE]

\* lines 329-341: const [gray] = line.slice(i, i + bpp)
GrayPixel(line, i, row) ==
    LET gray == Index(line, i)
    IN  [position |-> [x |-> i, y |-> row],
         color |-> [red |-> gray, green |-> gray, blue |-> gray, alpha |-> 1]]

\* lines 342-350: PLTE.entries[parseIntFromBuffer(line.slice(i, i + bpp).buffer, 8)]
IndexedFails(line, i, bpp, plte) ==
    plte = Null \/ ParseIntFails(Slice(line, i, i + bpp), 8)
IndexedPixel(line, i, bpp, plte, row) ==
    LET k == ParseIntFromBuffer(Slice(line, i, i + bpp), 8)
    IN  [position |-> [x |-> i, y |-> row],
         color |-> IF k < Len(plte.entries) THEN plte.entries[k + 1]
                   ELSE UndefinedColor]

\* lines 321-353: the pixels pushed for one line, i from 0 to width - 1
RowPixels(line, row, hdr, plte) ==
    IF hdr.colorType = GRAY_SCALE
    THEN [k \in 1..hdr.width |-> GrayPixel(line, k - 1, row)]
    ELSE IF hdr.colorType = INDEXED
    THEN [k \in 1..hdr.width |-> IndexedPixel(line, k - 1, hdr.bpp, plte, row)]
    ELSE << >>
RowFails(line, hdr, plte) ==
    /\ hdr.colorType = INDEXED
    /\ \E k \in 1..hdr.width : IndexedFails(line, k - 1, hdr.bpp, plte)

RECURSIVE AllPixels(_, _, _, _)
AllPixels(ls, row, hdr, plte) ==
    IF row >= Len(ls) THEN << >>
    ELSE RowPixels(ls[row + 1][2], row, hdr, plte) \o AllPixels(ls, row + 1, hdr, plte)

\* lines 316-359
ConstructPixels ==
    /\ pc = "pixels"
    /\ IF \E k \in 1..Len(lines) : RowFails(lines[k][2], IHDR, PLTE)
       THEN pc' = "error" /\ UNCHANGED pixels
       ELSE pixels' = AllPixels(lines, 0, IHDR, PLTE) /\ pc' = "returned"
    /\ UNCHANGED << entry, input, data, chunks, previousType, IHDR, inflated, lines,
                    ri, rj, PLTE, orig, paethVars, hookVars >>

(***************************************************************************)
(* paethPredictor                                                          *)
(***************************************************************************)
CallPaeth ==
    /\ pc = "paethPredictor"
    /\ presult' = PaethPredictor(pargs[1], pargs[2], pargs[3])
    /\ pc' = "returned"
    /\ UNCHANGED << entry, pargs, parserVars, hookVars >>

(***************************************************************************)
(* useFetchImage, in a component that is mounted, given new urls and       *)
(* unmounted; fetchImage settles each promise at any later time            *)
(***************************************************************************)
Urls == { "a.png", "b.png", "c.png" }
\* fetchImage(url) resolved: the Uint8Array of the response's body
Body(u) == [body |-> u]
NetworkError == [message |-> "network error!"]

\* hooks lines 9-26: the effect, run for the render with `url` = u.  The callback
\* given to then() closes over the isCancel of that render.
Effect(u, rendered) ==
    /\ buf' = Null
    /\ err' = Null
    /\ isCancel' = FALSE
    /\ fetches' = fetches \cup { [id |-> issued, url |-> u, isCancel |-> rendered] }
    /\ issued' = issued + 1

\* the first render and its effect
Mount(u) ==
    /\ pc = "useFetchImage"
    /\ phase = "initial"
    /\ phase' = "mounted"
    /\ url' = u
    /\ Effect(u, isCancel)
    /\ UNCHANGED << entry, pc, parserVars, paethVars >>

\* a render with another url: the cleanup of the last effect (setIsCancel(true),
\* lines 23-25), then the effect; the state updates of both are applied together
ChangeUrl(u) ==
    /\ pc = "useFetchImage"
    /\ phase = "mounted"
    /\ u # url
    /\ issued < MaxFetches
    /\ url' = u
    /\ Effect(u, isCancel)
    /\ UNCHANGED << entry, pc, phase, parserVars, paethVars >>

\* the component is unmounted: the cleanup runs; a state update of an unmounted
\* component changes nothing
Unmount ==
    /\ pc = "useFetchImage"
    /\ phase = "mounted"
    /\ phase' = "unmounted"
    /\ UNCHANGED << entry, pc, url, isCancel, buf, err, fetches, issued,
                    parserVars, paethVars >>

\* hooks lines 14-19: the promise of fetchImage is fulfilled
Resolve(f) ==
    /\ pc = "useFetchImage"
    /\ f \in fetches
    /\ fetches' = fetches \ { f }
    /\ buf' = IF ~f.isCancel /\ phase = "mounted" THEN Body(f.url) ELSE buf
    /\ UNCHANGED << entry, pc, url, isCancel, err, phase, issued, parserVars, paethVars >>

\* hooks lines 20-22: the promise of fetchImage is rejected (helpers line 5)
Reject(f) ==
    /\ pc = "useFetchImage"
    /\ f \in fetches
    /\ fetches' = fetches \ { f }
    /\ err' = IF phase = "mounted" THEN NetworkError ELSE err
    /\ UNCHANGED << entry, pc, url, isCancel, buf, phase, issued, parserVars, paethVars >>

(***************************************************************************)
(* Inputs                                                                  *)
(***************************************************************************)

Signature == << 137, 80, 78, 71, 13, 10, 26, 10 >>

\* the four bytes of n, big-endian (n < 2^24 here)
BE32(n) == << 0, (n \div 65536) % 256, (n \div 256) % 256, n % 256 >>
Zeros(n) == [k \in 1..n |-> 0]
\* a chunk on the wire: length, type, data and four CRC bytes (never read by the decoder)
EncChunk(type, payload) == BE32(Len(payload)) \o type \o payload \o Zeros(4)

RECURSIVE Concat(_)
Concat(ss) == IF ss = << >> THEN << >> ELSE Head(ss) \o Concat(Tail(ss))

FrameTags == { T_IHDR, T_IDAT, T_IEND }
\* a chunk of n data bytes whose length field says n, or one byte more
FrameChunks ==
    { BE32(n + lie) \o t \o Zeros(n) \o Zeros(4) :
        t \in FrameTags, n \in 0..MaxChunkLen, lie \in 0..1 }
FrameStreams == UNION { { Signature \o Concat(cs) : cs \in [1..k -> FrameChunks] } : k \in 0..MaxChunks }
\* a stream with its last bytes cut off
FrameInputs == { SubSeq(s, 1, Len(s) - cut) : s \in FrameStreams, cut \in 0..MaxCut }

PaethBytes == (0..PaethSpan) \cup ((255 - PaethSpan)..255)

\* the IHDR data: width, height (big-endian), depth, colorType, compression,
\* filter, interlace
IHDRData(w, h, depth, ct, comp, filt, inter) ==
    BE32(w) \o BE32(h) \o << depth, ct, comp, filt, inter >>
AsChunk(type, payload) == [length |-> Len(payload), type |-> type, data |-> payload]

ColorTypes == { GRAY_SCALE, TRUE_COLOR, INDEXED, GRAY_SCALE_ALPHA, TRUE_COLOR_ALPHA }
\* the bit depths the PNG format allows for a colour type; all five for a
\* colorType byte that is no colour type
Depths(ct) ==
    CASE ct = GRAY_SCALE -> { 1, 2, 4, 8, 16 }
      [] ct = INDEXED -> { 1, 2, 4, 8 }
      [] ct \in { TRUE_COLOR, GRAY_SCALE_ALPHA, TRUE_COLOR_ALPHA } -> { 8, 16 }
      [] OTHER -> { 1, 2, 4, 8, 16 }

\* the original scanlines: h lines of bpl bytes, a pattern of sample bytes repeated
Samples == { 0, 1, 128, 255 }
Patterns(n) == [1..n -> Samples]
OrigLines(pat, h, bpl) ==
    [i \in 1..h |-> [j \in 1..bpl |-> pat[(((i - 1) * bpl + (j - 1)) % Len(pat)) + 1]]]
\* the filter type of line i
TagOf(t0, ts, i) == (t0 + i * ts) % 5

\* The filter functions of the PNG format (the table above decodeIDAT):
\* Filt(x) = Orig(x) - predictor, a byte that does not exist counting as 0.
StdPaeth(a, b, c) ==
    LET p == a + b - c
        pa == Abs(p - a)
        pb == Abs(p - b)
        pc_ == Abs(p - c)
    IN  IF pa <= pb /\ pa <= pc_ THEN a ELSE IF pb <= pc_ THEN b ELSE c
Predictor(tag, a, b, c) ==
    CASE tag = 0 -> 0
      [] tag = 1 -> a
      [] tag = 2 -> b
      [] tag = 3 -> (a + b) \div 2
      [] tag = 4 -> StdPaeth(a, b, c)
FilterLine(o, i, tag, bpp) ==
    [j \in 1..Len(o[i]) |->
        LET a == IF j > bpp THEN o[i][j - bpp] ELSE 0
            b == IF i > 1 THEN o[i - 1][j] ELSE 0
            c == IF i > 1 /\ j > bpp THEN o[i - 1][j - bpp] ELSE 0
        IN  (o[i][j] - Predictor(tag, a, b, c) + 256) % 256]
\* the bytes inflate gives: each line's filter type, then its filtered bytes
RECURSIVE FilteredData(_, _, _, _, _)
FilteredData(o, i, t0, ts, bpp) ==
    IF i > Len(o) THEN << >>
    ELSE << TagOf(t0, ts, i - 1) >> \o FilterLine(o, i, TagOf(t0, ts, i - 1), bpp)
         \o FilteredData(o, i + 1, t0, ts, bpp)

\* a zlib stream of one stored block
ZlibStore(raw) ==
    << 120, 1 >>
    \o << 1, Len(raw) % 256, Len(raw) \div 256, 255 - (Len(raw) % 256), 255 - (Len(raw) \div 256) >>
    \o raw \o Adler32Bytes(raw)
\* a palette of n entries: red, green, blue, red, ...
PaletteData(n) ==
    [k \in 1..(3 * n) |-> IF (k - 1) % 3 = ((k - 1) \div 3) % 3 THEN 255 ELSE 0]
\* the data with its last byte cut (-1), as it is (0), or with one more byte (1)
Resize(raw, excess) ==
    IF excess < 0 THEN SubSeq(raw, 1, Len(raw) - 1)
    ELSE IF excess > 0 THEN Append(raw, 0) ELSE raw
\* the IDAT chunks: the zlib stream in one chunk, or cut in two in the middle
IDATChunks(z, split) ==
    IF split = 0 THEN EncChunk(T_IDAT, z)
    ELSE EncChunk(T_IDAT, SubSeq(z, 1, Len(z) \div 2))
         \o EncChunk(T_IDAT, SubSeq(z, (Len(z) \div 2) + 1, Len(z)))
\* a PNG file: 8-bit depth, not interlaced; a PLTE chunk of np entries when indexed
PngFile(ct, w, h, pat, t0, np, excess, split) ==
    LET bpp == Bpp(8, Channels(ct))
        o == OrigLines(pat, h, bpp * w)
        raw == Resize(FilteredData(o, 1, t0, 1, bpp), excess)
    IN  Signature
        \o EncChunk(T_IHDR, IHDRData(w, h, 8, ct, 0, 0, 0))
        \o (IF ct = INDEXED THEN EncChunk(T_PLTE, PaletteData(np)) ELSE << >>)
        \o IDATChunks(ZlibStore(raw), split)
        \o EncChunk(T_IEND, << >>)

IdleParser ==
    /\ input = << >> /\ data = << >> /\ chunks = << >> /\ previousType = << >>
    /\ IHDR = Null /\ inflated = << >> /\ lines = << >> /\ ri = 0 /\ rj = 0
    /\ PLTE = Null /\ pixels = << >> /\ orig = << >>
IdlePaeth == pargs = << 0, 0, 0 >> /\ presult = Undefined
IdleHook ==
    /\ url = "" /\ isCancel = FALSE /\ buf = Null /\ err = Null
    /\ phase = "initial" /\ fetches = {} /\ issued = 0

(***************************************************************************)
(* decodeChunks on every framed stream and every truncation of one         *)
(***************************************************************************)
InitChunks ==
    /\ entry = "decodeChunks" /\ pc = "decodeChunks"
    /\ input \in FrameInputs
    /\ data = << >> /\ chunks = << >> /\ previousType = << >>
    /\ IHDR = Null /\ inflated = << >> /\ lines = << >> /\ ri = 0 /\ rj = 0
    /\ PLTE = Null /\ pixels = << >> /\ orig = << >>
    /\ IdlePaeth /\ IdleHook
NextChunks == ConsumeHeader \/ ChunkLoop \/ ChunksReturn
SpecChunks == InitChunks /\ [][NextChunks]_vars /\ WF_vars(NextChunks)

(***************************************************************************)
(* paethPredictor on bytes near both ends of the range                     *)
(***************************************************************************)
InitPaeth ==
    /\ entry = "paethPredictor" /\ pc = "paethPredictor"
    /\ pargs \in PaethBytes \X PaethBytes \X PaethBytes
    /\ presult = Undefined
    /\ IdleParser /\ IdleHook
NextPaeth == CallPaeth
SpecPaeth == InitPaeth /\ [][NextPaeth]_vars

(***************************************************************************)
(* decodeIHDR on a header chunk                                            *)
(***************************************************************************)
InitIHDR ==
    /\ entry = "decodeIHDR" /\ pc = "decodeIHDR"
    /\ \E w \in 1..MaxWidth, h \in 1..MaxHeight, ct \in 0..7, m \in 0..1, short \in 0..1 :
         \E depth \in Depths(ct) :
           LET d == IHDRData(w, h, depth, ct, 0, 0, m)
           IN  chunks = << AsChunk(T_IHDR, SubSeq(d, 1, Len(d) - short)) >>
    /\ input = << >> /\ data = << >> /\ previousType = << >>
    /\ IHDR = Null /\ inflated = << >> /\ lines = << >> /\ ri = 0 /\ rj = 0
    /\ PLTE = Null /\ pixels = << >> /\ orig = << >>
    /\ IdlePaeth /\ IdleHook
NextIHDR == DecodeIHDR
SpecIHDR == InitIHDR /\ [][NextIHDR]_vars

(***************************************************************************)
(* decodePLTE on a palette chunk                                           *)
(***************************************************************************)
InitPLTE ==
    /\ entry = "decodePLTE" /\ pc = "decodePLTE"
    /\ \E n \in 0..(3 * MaxPalette) : \E d \in [1..n -> { 0, 255 }] :
         chunks = << AsChunk(T_PLTE, d) >>
    /\ input = << >> /\ data = << >> /\ previousType = << >>
    /\ IHDR = Null /\ inflated = << >> /\ lines = << >> /\ ri = 0 /\ rj = 0
    /\ PLTE = Null /\ pixels = << >> /\ orig = << >>
    /\ IdlePaeth /\ IdleHook
NextPLTE == DecodePLTE
SpecPLTE == InitPLTE /\ [][NextPLTE]_vars

(***************************************************************************)
(* decodeIDAT on the filtered bytes of known scanlines                     *)
(***************************************************************************)
InitIDAT ==
    /\ entry = "decodeIDAT" /\ pc = "decodeIDAT"
    /\ \E ct \in ColorTypes, w \in 1..MaxWidth, h \in 1..MaxHeight,
          pat \in Patterns(3), t0 \in 0..4, ts \in 0..4 :
         /\ IHDR = DecodeIHDRResult(AsChunk(T_IHDR, IHDRData(w, h, 8, ct, 0, 0, 0)))
         /\ orig = OrigLines(pat, h, IHDR.bpl)
         /\ inflated = FilteredData(orig, 1, t0, ts, IHDR.bpp)
    /\ input = << >> /\ data = << >> /\ chunks = << >> /\ previousType = << >>
    /\ lines = << >> /\ ri = 0 /\ rj = 0
    /\ PLTE = Null /\ pixels = << >>
    /\ IdlePaeth /\ IdleHook
NextIDAT == BreakIntoScanlines \/ ReconByte \/ ReconNextLine \/ ReconReturn
SpecIDAT == InitIDAT /\ [][NextIDAT]_vars

(***************************************************************************)
(* png on a PNG file                                                       *)
(***************************************************************************)
InitPng ==
    /\ entry = "png" /\ pc = "decodeChunks"
    /\ \E ct \in ColorTypes, w \in 1..MaxWidth, h \in 1..MaxHeight,
          pat \in Patterns(2), t0 \in 0..4, np \in 0..MaxPalette,
          excess \in { -1, 0, 1 }, split \in 0..1 :
         /\ ct # INDEXED => np = 0
         /\ input = PngFile(ct, w, h, pat, t0, np, excess, split)
         /\ orig = OrigLines(pat, h, Bpp(8, Channels(ct)) * w)
    /\ data = << >> /\ chunks = << >> /\ previousType = << >>
    /\ IHDR = Null /\ inflated = << >> /\ lines = << >> /\ ri = 0 /\ rj = 0
    /\ PLTE = Null /\ pixels = << >>
    /\ IdlePaeth /\ IdleHook
NextPng ==
    \/ ConsumeHeader \/ ChunkLoop \/ ChunksReturn
    \/ DecodeIHDR \/ InflateIDAT
    \/ BreakIntoScanlines \/ ReconByte \/ ReconNextLine \/ ReconReturn
    \/ DecodePLTE \/ ConstructPixels
SpecPng == InitPng /\ [][NextPng]_vars

(***************************************************************************)
(* useFetchImage                                                           *)
(***************************************************************************)
InitHook ==
    /\ entry = "useFetchImage" /\ pc = "useFetchImage"
    /\ IdleParser /\ IdlePaeth /\ IdleHook
NextHook ==
    \/ \E u \in Urls : Mount(u)
    \/ \E u \in Urls : ChangeUrl(u)
    \/ Unmount
    \/ \E f \in fetches : Resolve(f)
    \/ \E f \in fetches : Reject(f)
SpecHook == InitHook /\ [][NextHook]_vars

(***************************************************************************)
(* The properties                                                          *)
(***************************************************************************)
\* The value of the four bytes after offset off, most significant first
BigEndianAt(b, off) ==
    b[off + 1] * 16777216 + b[off + 2] * 65536 + b[off + 3] * 256 + b[off + 4]
\* From offset off the buffer holds whole chunks (length, type, data, CRC), up to
\* and including one of type IEND
RECURSIVE Framed(_, _)
Framed(b, off) ==
    /\ off + 8 <= Len(b)
    /\ off + 12 + BigEndianAt(b, off) <= Len(b)
    /\ \/ SubSeq(b, off + 5, off + 8) = T_IEND
       \/ Framed(b, off + 12 + BigEndianAt(b, off))

ChunksReturned == entry = "decodeChunks" /\ pc = "returned"
ChunksEndWithIEND ==
    ChunksReturned =>
        /\ Len(input) >= 8
        /\ Framed(input, 8)
        /\ chunks # << >>
        /\ chunks[Len(chunks)].type = T_IEND
        /\ \A k \in 1..Len(chunks) :
             /\ Len(chunks[k].data) = chunks[k].length
             /\ k < Len(chunks) => chunks[k].type # T_IEND

\* C1: decodeChunks terminates on every buffer, by returning or by failing; it
\* returns only when the buffer has 8 bytes and then whole chunks (length, type,
\* data and CRC all inside the buffer) up to an IEND chunk, and the chunks it
\* returns end with that IEND chunk.
C1_ChunkReaderFailsOrEndsWithIEND ==
    /\ []ChunksEndWithIEND
    /\ <>(pc \in { "returned", "error" })

\* C1: a buffer of more than 8 bytes with a whole first chunk and no IEND chunk
\* inside it: the reader has failed
C1_Witness ==
    /\ entry = "decodeChunks" /\ pc = "error"
    /\ Len(chunks) >= 2
    /\ \A k \in 1..Len(chunks) : chunks[k].type # T_IEND

\* C4: paethPredictor(a, b, c) is one of a, b, c, at the least distance from
\* p = a + b - c, the first of a, b, c at that distance; it is a when a = b = c.
C4_PaethNearestFirst ==
    (entry = "paethPredictor" /\ pc = "returned") =>
        LET a == pargs[1]
            b == pargs[2]
            c == pargs[3]
            p == a + b - c
            least == Min(Abs(p - a), Min(Abs(p - b), Abs(p - c)))
        IN  /\ presult \in { a, b, c }
            /\ Abs(p - presult) = least
            /\ Abs(p - a) = least => presult = a
            /\ (Abs(p - a) # least /\ Abs(p - b) = least) => presult = b
            /\ (a = b /\ b = c) => presult = a

\* C4: b and c are different and both nearest to p, a is not: the result is b
C4_Witness ==
    /\ entry = "paethPredictor" /\ pc = "returned"
    /\ LET p == pargs[1] + pargs[2] - pargs[3]
       IN  /\ Abs(p - pargs[2]) = Abs(p - pargs[3])
           /\ Abs(p - pargs[1]) > Abs(p - pargs[2])
           /\ pargs[2] # pargs[3]
    /\ presult = pargs[2]

\* the bytes of the lines, without their filter types
LineBytes(ls) == [k \in 1..Len(ls) |-> ls[k][2]]

RuleOf(tag, x, hasA, a, hasB, b, c) ==
    CASE tag = 0 -> x
      [] tag = 1 -> IF hasA THEN (x + a) % 256 ELSE x
      [] tag = 2 -> IF hasB THEN (x + b) % 256 ELSE x
      [] tag = 3 ->
            CASE hasA /\ hasB -> (x + ((a + b) \div 2)) % 256
              [] hasA /\ ~hasB -> (x + (a \div 2)) % 256
              [] ~hasA /\ hasB -> (x + (b \div 2)) % 256
              [] OTHER -> x
      [] tag = 4 ->
            CASE hasA /\ hasB -> (x + StdPaeth(a, b, c)) % 256
              [] hasA /\ ~hasB -> (x + a) % 256
              [] ~hasA /\ hasB -> (x + b) % 256
              [] OTHER -> x
RuleAt(ls, bpp, i, j) ==
    LET hasA == j > bpp
        hasB == i > 1
    IN  RuleOf(ls[i][1], ls[i][2][j],
               hasA, IF hasA THEN ls[i][2][j - bpp] ELSE 0,
               hasB, IF hasB THEN ls[i - 1][2][j] ELSE 0,
               IF hasA /\ hasB THEN ls[i - 1][2][j - bpp] ELSE 0)

\* C9: a step of the reconstruction writes at most the byte (ri, rj) and then
\* moves on to (ri, rj + 1); the value written is the rule of the line's filter
\* type applied to the byte and its neighbours as they are now; the lines are
\* taken in order, a line is left only after its last byte, and the
\* reconstruction ends only after the last line.
C9_ReconStep ==
    (entry = "decodeIDAT" /\ pc = "reconstruct") =>
        /\ Len(lines') = Len(lines)
        /\ \A i \in 1..Len(lines) :
             /\ lines'[i][1] = lines[i][1]
             /\ Len(lines'[i][2]) = Len(lines[i][2])
             /\ \A j \in 1..Len(lines[i][2]) :
                  lines'[i][2][j] # lines[i][2][j] => (i = ri + 1 /\ j = rj + 1)
        /\ \/ /\ ri' = ri /\ rj' = rj + 1 /\ pc' = pc
              /\ ri < Len(lines) /\ rj < Len(lines[ri + 1][2])
              /\ lines'[ri + 1][2][rj + 1] = RuleAt(lines, IHDR.bpp, ri + 1, rj + 1)
           \/ /\ ri' = ri + 1 /\ rj' = 0 /\ pc' = pc
              /\ ri < Len(lines) /\ rj = Len(lines[ri + 1][2])
              /\ lines' = lines
           \/ /\ pc' = "returned"
              /\ ri = Len(lines)
              /\ lines' = lines /\ ri' = ri /\ rj' = rj
ValidImage ==
    /\ IHDR.colorType \in ColorTypes
    /\ IHDR.depth = 8
    /\ Len(inflated) = IHDR.height * (IHDR.bpl + 1)
    /\ IHDR.colorType = INDEXED =>
         /\ PLTE # Null
         /\ \A i \in 1..Len(lines) : \A j \in 1..Len(lines[i][2]) :
              lines[i][2][j] < Len(PLTE.entries)

\* C2: the result of png for a valid file has positive width and height and
\* width * height pixels, one at each position of the grid.
C2_PixelGrid ==
    (entry = "png" /\ pc = "returned" /\ ValidImage) =>
        /\ IHDR.width > 0 /\ IHDR.height > 0
        /\ Len(pixels) = IHDR.width * IHDR.height
        /\ \A x \in 0..(IHDR.width - 1), y \in 0..(IHDR.height - 1) :
             Cardinality({ k \in 1..Len(pixels) :
                             pixels[k].position = [x |-> x, y |-> y] }) = 1

\* C5: entries[i] of the result of decodePLTE is the i-th group of three bytes of
\* the palette data, with full opacity.
C5_PaletteEntriesFromTriples ==
    (entry = "decodePLTE" /\ pc = "returned" /\ Len(chunks[1].data) % 3 = 0) =>
        LET d == chunks[1].data
        IN  /\ Len(PLTE.entries) = Len(d) \div 3
            /\ \A i \in 0..((Len(d) \div 3) - 1) :
                 PLTE.entries[i + 1] =
                     [red |-> d[3 * i + 1], green |-> d[3 * i + 2],
                      blue |-> d[3 * i + 3], alpha |-> 1]

\* C6: png returns no result for an indexed image with a sample that is the index
\* of no palette entry, and no pixel without a colour.
C6_PaletteIndexChecked ==
    (entry = "png" /\ pc = "returned" /\ IHDR.colorType = INDEXED) =>
        /\ \A i \in 1..Len(lines) : \A j \in 1..Len(lines[i][2]) :
             lines[i][2][j] < Len(PLTE.entries)
        /\ \A k \in 1..Len(pixels) : pixels[k].color # UndefinedColor

\* C7: decodeIHDR returns no header for a colorType byte other than 0, 2, 3, 4, 6.
C7_UnknownColorTypeRejected ==
    (entry = "decodeIHDR" /\ pc = "returned") => IHDR.colorType \in ColorTypes

\* C8: png returns no result (scanlines, pixels) built from inflated data whose
\* length is not height * (bytesPerScanline + 1).
C8_InflatedLengthChecked ==
    (entry = "png" /\ pc = "returned") =>
        Len(inflated) = IHDR.height * (IHDR.bpl + 1)

\* C10: buf is null or the bytes fetched for the url of the last render.
C10_BufIsOfCurrentUrl ==
    entry = "useFetchImage" => (buf = Null \/ buf = Body(url))

====
